---- MODULE Spec2Model ----
(***************************************************************************)
(* Model of geoparquet/__init__.py: to_geoparquet / read_geoparquet, the   *)
(* schema-metadata helpers and the multiprocessing fan-out over the        *)
(* geometry column.                                                        *)
(***************************************************************************)
EXTENDS Integers, Sequences, FiniteSets, TLC

\* ---------------------------------------------------------------- bounds
MaxRows == 3
NumWorkers == 2
MaxMetaKeys == 2

Workers == 1..NumWorkers

\* ------------------------------------------------- generic sequence helpers
Range(s) == {s[i] : i \in 1..Len(s)}

RECURSIVE Concat(_)
Concat(ss) == IF ss = <<>> THEN <<>> ELSE Head(ss) \o Concat(Tail(ss))

Min(a, b) == IF a <= b THEN a ELSE b

\* ------------------------------------------------------- Python values
\* Every value carries its Python type in pt; str and bytes with the same
\* content are different values ('k' != b'k').  s is the content of a short
\* string, v the tokens of a JSON text or the elements of a list, d the items
\* of a dict in insertion order: <<key string, value>>.
PyStr(s) == [pt |-> "str", s |-> s, v |-> <<>>, d |-> <<>>]
PyBytes(s) == [pt |-> "bytes", s |-> s, v |-> <<>>, d |-> <<>>]
PyText(toks) == [pt |-> "str", s |-> "", v |-> toks, d |-> <<>>]
PyNone == [pt |-> "none", s |-> "", v |-> <<>>, d |-> <<>>]
PyList(items) == [pt |-> "list", s |-> "", v |-> items, d |-> <<>>]
PyDict(items) == [pt |-> "dict", s |-> "", v |-> <<>>, d |-> items]

\* str.encode('utf-8') / bytes.decode('utf-8') / pyarrow's tobytes
encode_utf8(s) == [s EXCEPT !.pt = "bytes"]
decode_utf8(b) == [b EXCEPT !.pt = "str"]
tobytes(o) == IF o.pt = "str" THEN encode_utf8(o) ELSE o

\* dict item lookup / assignment on a sequence of <<key, value>> items
HasKey(items, k) == \E i \in 1..Len(items) : items[i][1] = k
GetItem(items, k) == items[CHOOSE i \in 1..Len(items) : items[i][1] = k][2]
SetItem(items, k, val) ==
    IF HasKey(items, k)
    THEN [i \in 1..Len(items) |-> IF items[i][1] = k THEN <<k, val>> ELSE items[i]]
    ELSE Append(items, <<k, val>>)

\* ---------------------------------------------------------------- JSON
\* JSON text is a sequence of tokens.
Tok(k, s) == [k |-> k, s |-> s]
LBRACKET == Tok("punct", "[")
RBRACKET == Tok("punct", "]")
LBRACE == Tok("punct", "{")
RBRACE == Tok("punct", "}")
COMMA == Tok("punct", ",")
COLON == Tok("punct", ":")
NULLTOK == Tok("null", "null")

RECURSIVE json_dumps(_)
RECURSIVE DumpElems(_, _)
RECURSIVE DumpMembers(_, _)
json_dumps(o) ==
    CASE o.pt = "str" -> <<Tok("string", o.s)>>
      [] o.pt = "none" -> <<NULLTOK>>
      [] o.pt = "list" -> <<LBRACKET>> \o DumpElems(o.v, 1) \o <<RBRACKET>>
      [] o.pt = "dict" -> <<LBRACE>> \o DumpMembers(o.d, 1) \o <<RBRACE>>
DumpElems(items, i) ==
    IF i > Len(items) THEN <<>>
    ELSE (IF i > 1 THEN <<COMMA>> ELSE <<>>) \o json_dumps(items[i])
         \o DumpElems(items, i + 1)
DumpMembers(items, i) ==
    IF i > Len(items) THEN <<>>
    ELSE (IF i > 1 THEN <<COMMA>> ELSE <<>>)
         \o <<Tok("string", items[i][1]), COLON>> \o json_dumps(items[i][2])
         \o DumpMembers(items, i + 1)

ParseFail == [ok |-> FALSE, val |-> PyNone, next |-> 0]
ParseOk(val, n) == [ok |-> TRUE, val |-> val, next |-> n]
TokAt(toks, i) == IF i \in 1..Len(toks) THEN toks[i] ELSE Tok("eof", "")

RECURSIVE ParseValue(_, _)
RECURSIVE ParseElems(_, _, _)
RECURSIVE ParseMembers(_, _, _)
ParseValue(toks, i) ==
    LET t == TokAt(toks, i) IN
    CASE t.k = "string" -> ParseOk(PyStr(t.s), i + 1)
      [] t.k = "null" -> ParseOk(PyNone, i + 1)
      [] t = LBRACKET ->
            IF TokAt(toks, i + 1) = RBRACKET THEN ParseOk(PyList(<<>>), i + 2)
            ELSE ParseElems(toks, i + 1, <<>>)
      [] t = LBRACE ->
            IF TokAt(toks, i + 1) = RBRACE THEN ParseOk(PyDict(<<>>), i + 2)
            ELSE ParseMembers(toks, i + 1, <<>>)
      [] OTHER -> ParseFail
ParseElems(toks, i, acc) ==
    LET r == ParseValue(toks, i) IN
    IF ~r.ok THEN ParseFail
    ELSE IF TokAt(toks, r.next) = COMMA
         THEN ParseElems(toks, r.next + 1, Append(acc, r.val))
         ELSE IF TokAt(toks, r.next) = RBRACKET
              THEN ParseOk(PyList(Append(acc, r.val)), r.next + 1)
              ELSE ParseFail
ParseMembers(toks, i, acc) ==
    IF TokAt(toks, i).k # "string" \/ TokAt(toks, i + 1) # COLON THEN ParseFail
    ELSE LET r == ParseValue(toks, i + 2) IN
         IF ~r.ok THEN ParseFail
         ELSE LET acc2 == SetItem(acc, TokAt(toks, i).s, r.val) IN
              IF TokAt(toks, r.next) = COMMA
              THEN ParseMembers(toks, r.next + 1, acc2)
              ELSE IF TokAt(toks, r.next) = RBRACE
                   THEN ParseOk(PyDict(acc2), r.next + 1)
                   ELSE ParseFail

\* json.loads: the whole text must be one value, otherwise it raises
json_loads(toks) ==
    LET r == ParseValue(toks, 1) IN
    IF r.ok /\ r.next = Len(toks) + 1 THEN [ok |-> TRUE, val |-> r.val]
    ELSE [ok |-> FALSE, val |-> PyNone]

\* ------------------------------------------------- geometry values, WKB
\* A cell of a column is a shapely geometry, None, a bytes object or an int.
\* a geometry: its kind and its rings of <<x, y>> coordinates
Geom(t, rings) == [geom_type |-> t, rings |-> rings]
NoGeom == Geom("", <<>>)

GeomCell(g) == [ctype |-> "geometry", geom |-> g, bytes |-> <<>>, num |-> 0]
NoneCell == [ctype |-> "none", geom |-> NoGeom, bytes |-> <<>>, num |-> 0]
BytesCell(b) == [ctype |-> "bytes", geom |-> NoGeom, bytes |-> b, num |-> 0]
IntCell(n) == [ctype |-> "int", geom |-> NoGeom, bytes |-> <<>>, num |-> n]
PointAt(x, y) == Geom("Point", << << <<x, y>> >> >>)
Square == Geom("Polygon", << << <<0, 0>>, <<1, 0>>, <<1, 1>>, <<0, 1>>, <<0, 0>> >> >>)

WkbTypeCode(t) ==
    CASE t = "Point" -> 1 [] t = "LineString" -> 2 [] t = "Polygon" -> 3

CodecFail == [ok |-> FALSE, val |-> NoneCell]
CodecOk(c) == [ok |-> TRUE, val |-> c]

WkbRing(ring) == <<Len(ring)>> \o Concat(ring)

\* shapely.wkb.dumps: byte order, type code, then the coordinates;
\* raises for anything that is not a geometry (None included)
wkb_dumps(c) ==
    IF c.ctype # "geometry" THEN CodecFail
    ELSE LET g == c.geom IN
         CodecOk(BytesCell(
            CASE g.geom_type = "Point" ->
                    <<1, WkbTypeCode("Point")>> \o Concat(g.rings[1])
              [] g.geom_type = "LineString" ->
                    <<1, WkbTypeCode("LineString")>> \o WkbRing(g.rings[1])
              [] g.geom_type = "Polygon" ->
                    <<1, WkbTypeCode("Polygon"), Len(g.rings)>>
                    \o Concat([r \in 1..Len(g.rings) |-> WkbRing(g.rings[r])])))

\* ReadPoints with the two axes of every pair exchanged
ReadPointsSwapped(b, i, n) ==
    IF i + 2 * n - 1 > Len(b) THEN <<>>
    ELSE [k \in 1..n |-> <<b[i + 2 * (k - 1) + 1], b[i + 2 * (k - 1)]>>]

\* read n coordinate pairs starting at b[i]; <<>> when b is too short
ReadPoints(b, i, n) ==
    IF i + 2 * n - 1 > Len(b) THEN <<>>
    ELSE [k \in 1..n |-> <<b[i + 2 * (k - 1)], b[i + 2 * (k - 1) + 1]>>]

RECURSIVE ReadRings(_, _, _, _)
ReadRings(b, i, k, acc) ==
    IF k = 0 THEN [ok |-> i = Len(b) + 1, rings |-> acc]
    ELSE IF i > Len(b) \/ i + 2 * b[i] > Len(b) THEN [ok |-> FALSE, rings |-> <<>>]
         ELSE ReadRings(b, i + 1 + 2 * b[i], k - 1,
                        Append(acc, ReadPoints(b, i + 1, b[i])))

\* shapely.wkb.loads: raises when the bytes are not a well-formed geometry
wkb_loads(c) ==
    IF c.ctype # "bytes" THEN CodecFail
    ELSE LET b == c.bytes IN
         IF Len(b) < 2 \/ b[1] \notin {0, 1} THEN CodecFail
         ELSE CASE b[2] = 1 ->
                     IF Len(b) = 4 THEN CodecOk(GeomCell(PointAt(b[3], b[4])))
                     ELSE CodecFail
                [] b[2] = 2 ->
                     IF Len(b) >= 3 /\ Len(b) = 3 + 2 * b[3]
                     THEN CodecOk(GeomCell(Geom("LineString",
                                                <<ReadPoints(b, 4, b[3])>>)))
                     ELSE CodecFail
                [] b[2] = 3 ->
                     IF Len(b) < 3 THEN CodecFail
                     ELSE LET r == ReadRings(b, 4, b[3], <<>>) IN
                          IF r.ok THEN CodecOk(GeomCell(Geom("Polygon", r.rings)))
                          ELSE CodecFail
                [] OTHER -> CodecFail

\* GeoSeries.geom_type: the kind label, None for a missing geometry
geom_type(c) == IF c.ctype = "geometry" THEN PyStr(c.geom.geom_type) ELSE PyNone

\* unique that keeps every occurrence (tolist() without unique())
RECURSIVE uniqueKeepingAll(_)
uniqueKeepingAll(s) ==
    IF s = <<>> THEN <<>> ELSE Append(uniqueKeepingAll(SubSeq(s, 1, Len(s) - 1)), s[Len(s)])

\* Series.unique().tolist(): distinct values in order of first appearance
RECURSIVE unique(_)
unique(s) ==
    IF s = <<>> THEN <<>>
    ELSE LET r == unique(SubSeq(s, 1, Len(s) - 1)) IN
         IF s[Len(s)] \in Range(r) THEN r ELSE Append(r, s[Len(s)])

\* ------------------------------------------------- frames and the heap
\* A (Geo)DataFrame: column names in order, the cells of each column, the
\* name of the geometry column ("" for a plain DataFrame) and the crs.
Frame(cols, data, geometry, crs) ==
    [columns |-> cols, data |-> data, geometry |-> geometry, crs |-> crs]

CALLER == 1

NewRef(h) == CHOOSE r \in 1..(Cardinality(DOMAIN h) + 1) : r \notin DOMAIN h

\* FrameCopy that hands back the same object (df = self)
FrameCopyAlias(h, ref) == [heap |-> h, ref |-> ref]

\* DataFrame.copy(): a new object holding the same values
FrameCopy(h, ref) ==
    LET new == NewRef(h) IN [heap |-> (new :> h[ref]) @@ h, ref |-> new]

\* GetColumn that falls back to the first column for an unknown name
GetColumnDefaulting(f, name) ==
    IF name \in Range(f.columns) THEN [ok |-> TRUE, val |-> f.data[name]]
    ELSE [ok |-> TRUE, val |-> f.data[f.columns[1]]]

\* df[name]: KeyError when name is not a column
GetColumn(f, name) ==
    IF name \in Range(f.columns) THEN [ok |-> TRUE, val |-> f.data[name]]
    ELSE [ok |-> FALSE, val |-> <<>>]

\* df[name] = vals, on the object ref refers to
SetColumn(h, ref, name, vals) ==
    [h EXCEPT ![ref].data = (name :> vals) @@ @]

\* ------------------------------------------------- arrow tables, metadata
\* A pyarrow Table: columns, cells and the schema's key/value metadata
\* (absent, or a list of <<key bytes, value bytes>> that may repeat a key).
NoMetadata == [present |-> FALSE, kv |-> <<>>]
Metadata(kv) == [present |-> TRUE, kv |-> kv]
Table(cols, data, md) == [columns |-> cols, data |-> data, metadata |-> md]

JsonBytes(o) == encode_utf8(PyText(json_dumps(o)))

\* pa.Table.from_pandas: the frame's columns plus the b'pandas' metadata key
PandasMetadata(f) ==
    PyDict(<< <<"columns", PyList([i \in 1..Len(f.columns) |-> PyStr(f.columns[i])])>> >>)
from_pandas(f) ==
    Table(f.columns, f.data,
          Metadata(<< <<PyBytes("pandas"), JsonBytes(PandasMetadata(f))>> >>))

\* Table.to_pandas: a plain DataFrame of the same columns
to_pandas(t) == Frame(t.columns, t.data, "", PyNone)

\* KeyValueMetadata.to_dict: the first occurrence of a key wins
RECURSIVE to_dict(_)
to_dict(kv) ==
    IF kv = <<>> THEN <<>>
    ELSE LET r == to_dict(SubSeq(kv, 1, Len(kv) - 1)) IN
         IF HasKey(r, kv[Len(kv)][1]) THEN r ELSE Append(r, kv[Len(kv)])

\* table.schema.metadata: None when the schema has no metadata, else a dict
schema_metadata(t) ==
    IF t.metadata.present THEN [isnone |-> FALSE, items |-> to_dict(t.metadata.kv)]
    ELSE [isnone |-> TRUE, items |-> <<>>]

\* table.replace_schema_metadata(dict): every item appended as bytes
replace_schema_metadata(t, items) ==
    [t EXCEPT !.metadata =
        Metadata([i \in 1..Len(items) |-> <<tobytes(items[i][1]), tobytes(items[i][2])>>])]

\* the loop of _update_metadata: tbl_metadata[k] = json.dumps(v).encode('utf-8')
\* with k the str key of new_metadata
RECURSIVE AssignEach(_, _, _)
AssignEach(items, new, i) ==
    IF i > Len(new) THEN items
    ELSE AssignEach(SetItem(items, PyStr(new[i][1]), JsonBytes(new[i][2])), new, i + 1)

_update_metadata(t, new_metadata) ==
    IF new_metadata = <<>> THEN [ok |-> TRUE, err |-> "", table |-> t]
    ELSE LET md == schema_metadata(t) IN
         IF md.isnone THEN [ok |-> FALSE, err |-> "TypeError", table |-> t]
         ELSE [ok |-> TRUE, err |-> "",
               table |-> replace_schema_metadata(t, AssignEach(md.items, new_metadata, 1))]

\* _deserialise_metadata: every key decoded, every value JSON-decoded
RECURSIVE DecodeEach(_, _, _)
DecodeEach(items, i, acc) ==
    IF i > Len(items) THEN [ok |-> TRUE, err |-> "", val |-> acc]
    ELSE LET r == json_loads(decode_utf8(items[i][2]).v) IN
         IF ~r.ok THEN [ok |-> FALSE, err |-> "JSONDecodeError", val |-> <<>>]
         ELSE DecodeEach(items, i + 1, SetItem(acc, decode_utf8(items[i][1]).s, r.val))

_deserialise_metadata(t) ==
    LET md == schema_metadata(t) IN
    IF md.isnone THEN [ok |-> FALSE, err |-> "AttributeError", val |-> <<>>]
    ELSE DecodeEach(md.items, 1, <<>>)

\* pyproj.CRS.from_dict(crs).to_wkt(version='WKT2_2018'): the canonical text
\* of a proj dict it can resolve; raises for everything else
ResolvableCrs == PyDict(<< <<"init", PyStr("epsg:4326")>> >>)
crs_to_wkt(crs) ==
    IF crs = ResolvableCrs THEN [ok |-> TRUE, val |-> PyStr("GEOGCRS[WGS 84]")]
    ELSE [ok |-> FALSE, val |-> PyNone]

\* ---------------------------------------------------------------- state
VARIABLES
    heap,     \* the DataFrame objects: reference -> frame; CALLER is the caller's
    pc,       \* "idle", "serialise" (inside to_geoparquet's map) or
              \* "deserialise" (inside read_geoparquet's map)
    loc,      \* the local variables of the call in progress
    pool,     \* the multiprocessing.Pool of the call in progress
    calls,    \* shapely.wkb.dumps/loads invocations made by the workers in this call
    disk,     \* the parquet file at path: <<>> or <<table>>
    written,  \* TRUE once pq.write_table has written the file at path
    last,     \* how the last call ended; NoOutcome while a call is in progress
    result,   \* the GeoDataFrame read_geoparquet returned: <<>> or <<frame>>
    um        \* a direct call of _update_metadata: <<input>> or <<input, output>>

vars == <<heap, pc, loc, pool, calls, disk, written, last, result, um>>

\* ------------------------------------------------------------- inputs
GeomCells ==
    {GeomCell(PointAt(0, 0)), GeomCell(PointAt(1, 2)), GeomCell(Square), NoneCell}

CrsInputs ==
    {ResolvableCrs, PyStr("+init=epsg:4326"),
     PyDict(<< <<"proj", PyStr("bogus")>> >>), PyNone}

Layouts == {[columns |-> <<"id", "geom">>, geometry |-> "geom"],
            [columns |-> <<"geometry", "id">>, geometry |-> "geometry"]}

IdColumn(n) == [i \in 1..n |-> IntCell(i)]

GeoFrame(l, geoms, crs) ==
    Frame(l.columns,
          [c \in Range(l.columns) |->
              IF c = l.geometry THEN geoms ELSE IdColumn(Len(geoms))],
          l.geometry, crs)

\* every geometry column of up to MaxRows rows, under every CRS input in the
\* first layout and under the resolvable CRS in every layout
InputFrames ==
    {GeoFrame(lc[1], g, lc[2]) :
        lc \in ({[columns |-> <<"id", "geom">>, geometry |-> "geom"]} \X CrsInputs)
                  \cup (Layouts \X {ResolvableCrs}),
        g \in UNION {[1..n -> GeomCells] : n \in 0..MaxRows}}

\* one record of the 'geometry_fields' list
GeometryField(field_name, geometry_types, crs, crs_format) ==
    PyDict(<< <<"field_name", PyStr(field_name)>>,
              <<"geometry_format", PyStr("wkb")>>,
              <<"geometry_types", PyList(geometry_types)>>,
              <<"crs", crs>>,
              <<"crs_format", PyStr(crs_format)>> >>)

\* files at path that this package did not write
PlainFrame(geoms) ==
    Frame(<<"id", "geom">>,
          [c \in {"id", "geom"} |-> IF c = "geom" THEN geoms ELSE IdColumn(Len(geoms))],
          "", PyNone)
GoodWkb == <<wkb_dumps(GeomCell(PointAt(0, 0))).val, wkb_dumps(GeomCell(Square)).val>>
BadWkb == <<wkb_dumps(GeomCell(PointAt(0, 0))).val, BytesCell(<<1, 9>>)>>
PandasItem(f) == <<PyBytes("pandas"), JsonBytes(PandasMetadata(f))>>
ForeignEnvelope(name) ==
    <<PyBytes("geometry_fields"),
      JsonBytes(PyList(<<GeometryField(name, <<PyStr("Point"), PyStr("Polygon")>>,
                                       PyStr("epsg:4326"), "unknown")>>))>>

PlainFiles ==
    {Table(<<"id", "geom">>, PlainFrame(GoodWkb).data, NoMetadata),
     Table(<<"id", "geom">>, PlainFrame(GoodWkb).data, Metadata(<<>>)),
     Table(<<"id", "geom">>, PlainFrame(GoodWkb).data,
           Metadata(<<PandasItem(PlainFrame(GoodWkb))>>))}
MismatchFile ==
    Table(<<"id", "geom">>, PlainFrame(GoodWkb).data,
          Metadata(<<PandasItem(PlainFrame(GoodWkb)), ForeignEnvelope("shape")>>))
CorruptFile ==
    Table(<<"id", "geom">>, PlainFrame(BadWkb).data,
          Metadata(<<PandasItem(PlainFrame(BadWkb)), ForeignEnvelope("geom")>>))
ForeignFiles == PlainFiles \cup {MismatchFile, CorruptFile}

\* ------------------------------------------------------------ the pool
PoolIdle ==
    [func |-> "none", chunksize |-> 0, chunks |-> <<>>, taskq |-> <<>>,
     busy |-> [w \in Workers |-> 0], value |-> <<>>, left |-> 0, success |-> TRUE]

CeilDiv(a, b) == (a \div b) + (IF a % b # 0 THEN 1 ELSE 0)

\* Pool().map(func, column): the column is cut into chunks, one task per
\* chunk is queued, and the result list has one slot per row
PoolMap(func, column) ==
    LET n == Len(column)
        chunksize == IF n = 0 THEN 0 ELSE CeilDiv(n, NumWorkers * 4)
        nchunks == IF n = 0 THEN 0 ELSE CeilDiv(n, chunksize)
    IN [func |-> func, chunksize |-> chunksize,
        chunks |-> [k \in 1..nchunks |->
                      SubSeq(column, (k - 1) * chunksize + 1, Min(k * chunksize, n))],
        taskq |-> [k \in 1..nchunks |-> k],
        busy |-> [w \in Workers |-> 0],
        value |-> [i \in 1..n |-> NoneCell],
        left |-> nchunks, success |-> TRUE]

Codec(func, c) == IF func = "dumps" THEN wkb_dumps(c) ELSE wkb_loads(c)

\* a worker runs list(map(func, chunk)): it stops at the first value that raises
FirstFailure(func, chunk) ==
    IF \E i \in 1..Len(chunk) : ~Codec(func, chunk[i]).ok
    THEN CHOOSE i \in 1..Len(chunk) :
            /\ ~Codec(func, chunk[i]).ok
            /\ \A j \in 1..(i - 1) : Codec(func, chunk[j]).ok
    ELSE 0
ChunkResult(func, chunk) == [i \in 1..Len(chunk) |-> Codec(func, chunk[i]).val]

\* SetSlice that files the results in the order the chunks complete
SetSliceCompletionOrder(value, k, chunksize, res) ==
    LET done == Cardinality({i \in 1..Len(value) : value[i] # NoneCell}) IN
    [i \in 1..Len(value) |->
        IF i \in (done + 1)..(done + Len(res)) THEN res[i - done] ELSE value[i]]

\* MapResult._set on success: the chunk's results go to the chunk's own slots
SetSlice(value, k, chunksize, res) ==
    [i \in 1..Len(value) |->
        IF i \in ((k - 1) * chunksize + 1)..((k - 1) * chunksize + Len(res))
        THEN res[i - (k - 1) * chunksize] ELSE value[i]]

\* MapReturns that does not look at the failure flag
MapReturnsIgnoringFailure == pool.func # "none" /\ pool.left = 0

\* the map call returns once every chunk is done; a chunk that raised makes it
\* raise (at once, or once the others are done, depending on the interpreter)
MapReturns == pool.func # "none" /\ pool.success /\ pool.left = 0
MapRaises == pool.func # "none" /\ ~pool.success

NoLoc ==
    [field_name |-> "", crs |-> PyNone, crs_format |-> "", geometry_types |-> <<>>,
     self |-> 0, df |-> 0]
Outcome(op, ok, err) == [op |-> op, ok |-> ok, err |-> err]
\* no call has finished since the last one began
NoOutcome == Outcome("none", TRUE, "")

Init ==
    /\ \/ /\ disk = <<>>
          /\ \E f \in InputFrames : heap = (CALLER :> f)
       \/ /\ \E t \in ForeignFiles : disk = <<t>>
          /\ heap = (CALLER :> GeoFrame([columns |-> <<"id", "geom">>, geometry |-> "geom"],
                                        <<GeomCell(PointAt(0, 0))>>, ResolvableCrs))
    /\ pc = "idle"
    /\ loc = NoLoc
    /\ pool = PoolIdle
    /\ calls = 0
    /\ written = FALSE
    /\ last = NoOutcome
    /\ result = <<>>
    /\ um = <<>>

\* ------------------------------------------------------------ workers
\* an idle worker takes the next task off the queue (idle workers are
\* interchangeable: the lowest-numbered one stands for any of them)
WorkerTake(w) ==
    /\ pool.func # "none"
    /\ pool.busy[w] = 0
    /\ \A v \in Workers : pool.busy[v] = 0 => w <= v
    /\ pool.taskq # <<>>
    /\ pool' = [pool EXCEPT !.busy[w] = Head(pool.taskq), !.taskq = Tail(pool.taskq)]
    /\ UNCHANGED <<heap, pc, loc, calls, disk, written, last, result, um>>

WorkerReturn(w) ==
    /\ pool.busy[w] # 0
    /\ LET k == pool.busy[w]
           chunk == pool.chunks[k]
       IN /\ FirstFailure(pool.func, chunk) = 0
          /\ pool' = [pool EXCEPT
                        !.busy[w] = 0,
                        !.left = @ - 1,
                        !.value = IF pool.success
                                  THEN SetSlice(@, k, pool.chunksize,
                                                ChunkResult(pool.func, chunk))
                                  ELSE @]
          /\ calls' = calls + Len(chunk)
    /\ UNCHANGED <<heap, pc, loc, disk, written, last, result, um>>

WorkerRaise(w) ==
    /\ pool.busy[w] # 0
    /\ LET k == pool.busy[w]
           chunk == pool.chunks[k]
       IN /\ FirstFailure(pool.func, chunk) # 0
          /\ pool' = [pool EXCEPT !.busy[w] = 0, !.left = @ - 1, !.success = FALSE]
          /\ calls' = calls + FirstFailure(pool.func, chunk)
    /\ UNCHANGED <<heap, pc, loc, disk, written, last, result, um>>

\* ------------------------------------------------------- to_geoparquet
\* capture_crs whose fallback drops the description
capture_crs_dropping(crs) ==
    LET n == crs_to_wkt(crs) IN
    IF n.ok THEN [crs |-> n.val, crs_format |-> "WKT2_2018"]
    ELSE [crs |-> PyNone, crs_format |-> "unknown"]

\* the try/except around the CRS capture
capture_crs(crs) ==
    LET n == crs_to_wkt(crs) IN
    IF n.ok THEN [crs |-> n.val, crs_format |-> "WKT2_2018"]
    ELSE [crs |-> crs, crs_format |-> "unknown"]

\* self.geometry.geom_type.unique().tolist()
capture_geometry_types(column) ==
    unique([i \in 1..Len(column) |-> geom_type(column[i])])

\* geometry_metadata that stores the record itself, not a list of records
geometry_metadata_bare(field_name, geometry_types, crs, crs_format) ==
    << <<"geometry_fields", GeometryField(field_name, geometry_types, crs, crs_format)>> >>

\* the geometry_metadata dict literal
geometry_metadata(field_name, geometry_types, crs, crs_format) ==
    << <<"geometry_fields",
         PyList(<<GeometryField(field_name, geometry_types, crs, crs_format)>>)>> >>

\* to_geoparquet up to the dispatch of the map inside _serialise_geometry
ToGeoparquetBegin ==
    /\ pc = "idle"
    /\ LET self == heap[CALLER]
           field_name == self.geometry
           c == capture_crs(self.crs)
           cp == FrameCopy((CALLER :> self), CALLER)
       IN /\ heap' = cp.heap
          /\ loc' = [field_name |-> field_name, crs |-> c.crs,
                     crs_format |-> c.crs_format,
                     geometry_types |-> capture_geometry_types(self.data[field_name]),
                     self |-> CALLER, df |-> cp.ref]
          /\ pool' = PoolMap("dumps", GetColumn(cp.heap[cp.ref], field_name).val)
    /\ pc' = "serialise"
    /\ calls' = 0
    /\ result' = <<>>
    /\ last' = NoOutcome
    /\ UNCHANGED <<disk, written, um>>

\* a row failed to encode: the map raises, the pool is torn down and the
\* exception leaves to_geoparquet
ToGeoparquetRaise ==
    /\ pc = "serialise"
    /\ MapRaises
    /\ pc' = "idle"
    /\ pool' = PoolIdle
    /\ loc' = NoLoc
    /\ last' = Outcome("to_geoparquet", FALSE, "CodecError")
    /\ UNCHANGED <<heap, calls, disk, written, result, um>>

\* the map returned: column assignment, from_pandas, _update_metadata, write_table
ToGeoparquetWrite ==
    /\ pc = "serialise"
    /\ MapReturns
    /\ LET h == SetColumn(heap, loc.df, loc.field_name, pool.value)
           u == _update_metadata(from_pandas(h[loc.df]),
                                 geometry_metadata(loc.field_name, loc.geometry_types,
                                                   loc.crs, loc.crs_format))
       IN /\ heap' = h
          /\ IF u.ok
             THEN /\ disk' = <<u.table>>
                  /\ written' = TRUE
                  /\ last' = Outcome("to_geoparquet", TRUE, "")
             ELSE /\ last' = Outcome("to_geoparquet", FALSE, u.err)
                  /\ UNCHANGED <<disk, written>>
    /\ pc' = "idle"
    /\ pool' = PoolIdle
    /\ loc' = NoLoc
    /\ UNCHANGED <<calls, result, um>>

\* ------------------------------------------------------ read_geoparquet
\* read_geoparquet up to the column lookup inside _deserialise_geometry:
\* stage tells how far it got (2: to_pandas done, 3: the copy made, 4: dispatch)
read_prefix(d) ==
    LET fail(stage, err) ==
            [ok |-> FALSE, stage |-> stage, err |-> err, crs |-> PyNone,
             geom_col_name |-> ""]
    IN
    IF d = <<>> THEN fail(1, "FileNotFoundError")
    ELSE LET m == _deserialise_metadata(d[1]) IN
    IF ~m.ok THEN fail(1, m.err)
    ELSE IF ~HasKey(m.val, "geometry_fields") THEN fail(1, "KeyError: geometry_fields")
    ELSE LET gf == GetItem(m.val, "geometry_fields") IN
    IF gf.pt # "list" \/ gf.v = <<>> THEN fail(1, "IndexError")
    ELSE LET gm == gf.v[1] IN
    IF gm.pt # "dict" \/ ~HasKey(gm.d, "crs") THEN fail(1, "KeyError: crs")
    ELSE IF ~HasKey(gm.d, "field_name") THEN fail(2, "KeyError: field_name")
    ELSE LET name == GetItem(gm.d, "field_name") IN
    IF name.pt # "str" \/ ~GetColumn(to_pandas(d[1]), name.s).ok
    THEN fail(3, "KeyError: column")
    ELSE [ok |-> TRUE, stage |-> 4, err |-> "", crs |-> GetItem(gm.d, "crs"),
          geom_col_name |-> name.s]

\* the frames read_geoparquet has created by the given stage
ReadHeap(d, stage) ==
    LET base == (CALLER :> heap[CALLER]) IN
    IF stage < 2 THEN [heap |-> base, self |-> 0, df |-> 0]
    ELSE LET self == NewRef(base)
             h == (self :> to_pandas(d[1])) @@ base
         IN IF stage < 3 THEN [heap |-> h, self |-> self, df |-> 0]
            ELSE LET cp == FrameCopy(h, self) IN
                 [heap |-> cp.heap, self |-> self, df |-> cp.ref]

\* read_geoparquet raises before any task is handed to the pool
ReadGeoparquetFail ==
    /\ pc = "idle"
    /\ LET p == read_prefix(disk) IN
          /\ ~p.ok
          /\ heap' = ReadHeap(disk, p.stage).heap
          /\ last' = Outcome("read_geoparquet", FALSE, p.err)
    /\ calls' = 0
    /\ result' = <<>>
    /\ UNCHANGED <<pc, loc, pool, disk, written, um>>

\* read_geoparquet up to the dispatch of the map inside _deserialise_geometry
ReadGeoparquetBegin ==
    /\ pc = "idle"
    /\ LET p == read_prefix(disk)
           rh == ReadHeap(disk, p.stage)
       IN /\ p.ok
          /\ heap' = rh.heap
          /\ loc' = [NoLoc EXCEPT !.crs = p.crs, !.field_name = p.geom_col_name,
                                  !.self = rh.self, !.df = rh.df]
          /\ pool' = PoolMap("loads", GetColumn(rh.heap[rh.df], p.geom_col_name).val)
    /\ pc' = "deserialise"
    /\ calls' = 0
    /\ result' = <<>>
    /\ last' = NoOutcome
    /\ UNCHANGED <<disk, written, um>>

\* a row failed to decode
ReadGeoparquetRaise ==
    /\ pc = "deserialise"
    /\ MapRaises
    /\ pc' = "idle"
    /\ pool' = PoolIdle
    /\ loc' = NoLoc
    /\ last' = Outcome("read_geoparquet", FALSE, "CodecError")
    /\ UNCHANGED <<heap, calls, disk, written, result, um>>

\* the map returned: column assignment, GeoDataFrame(df, crs=crs, geometry=name)
ReadGeoparquetReturn ==
    /\ pc = "deserialise"
    /\ MapReturns
    /\ LET h == SetColumn(heap, loc.df, loc.field_name, pool.value) IN
          /\ heap' = h
          /\ result' = <<Frame(h[loc.df].columns, h[loc.df].data, loc.field_name, loc.crs)>>
    /\ pc' = "idle"
    /\ pool' = PoolIdle
    /\ loc' = NoLoc
    /\ last' = Outcome("read_geoparquet", TRUE, "")
    /\ UNCHANGED <<calls, disk, written, um>>

Next ==
    \/ ToGeoparquetBegin
    \/ ToGeoparquetRaise
    \/ ToGeoparquetWrite
    \/ ReadGeoparquetFail
    \/ ReadGeoparquetBegin
    \/ ReadGeoparquetRaise
    \/ ReadGeoparquetReturn
    \/ \E w \in Workers : WorkerTake(w)
    \/ \E w \in Workers : WorkerReturn(w)
    \/ \E w \in Workers : WorkerRaise(w)

Spec == Init /\ [][Next]_vars

\* ------------------------------------- _update_metadata called directly
MetaKeys == {"pandas", "geometry_fields", "gis"}
OldValues == {JsonBytes(PyStr("old")), JsonBytes(PyList(<<>>))}

\* metadata maps of up to MaxMetaKeys distinct byte-string keys
MetaMaps ==
    {kv \in UNION {[1..n -> {<<PyBytes(k), val>> : k \in MetaKeys, val \in OldValues}] :
                      n \in 0..MaxMetaKeys} :
        \A i, j \in 1..Len(kv) : kv[i][1] = kv[j][1] => i = j}

MetaTables ==
    {Table(<<"id">>, [c \in {"id"} |-> IdColumn(1)], md) :
        md \in {NoMetadata} \cup {Metadata(kv) : kv \in MetaMaps}}

NewMetadatas ==
    {<<>>,
     geometry_metadata("geom", <<PyStr("Point")>>, PyStr("epsg:4326"), "unknown"),
     << <<"gis", PyStr("new")>> >>,
     << <<"gis", PyStr("new")>>, <<"geometry_fields", PyList(<<>>)>> >>}

InitMeta ==
    /\ heap = (CALLER :> GeoFrame([columns |-> <<"id", "geom">>, geometry |-> "geom"],
                                  <<GeomCell(PointAt(0, 0))>>, ResolvableCrs))
    /\ pc = "idle"
    /\ loc = NoLoc
    /\ pool = PoolIdle
    /\ calls = 0
    /\ disk = <<>>
    /\ written = FALSE
    /\ last = NoOutcome
    /\ result = <<>>
    /\ \E t \in MetaTables, n \in NewMetadatas :
          um = <<[table |-> t, new_metadata |-> n]>>

UpdateMetadataCall ==
    /\ Len(um) = 1
    /\ um' = Append(um, _update_metadata(um[1].table, um[1].new_metadata))
    /\ UNCHANGED <<heap, pc, loc, pool, calls, disk, written, last, result>>

NextMeta == UpdateMetadataCall

SpecMeta == InitMeta /\ [][NextMeta]_vars

\* ============================================================ properties
Caller == heap[CALLER]
CallerGeoms == Caller.data[Caller.geometry]
Rows(col) == 1..Len(col)
Encodable(col) == \A i \in Rows(col) : wkb_dumps(col[i]).ok
Resolvable == crs_to_wkt(Caller.crs).ok

\* the entries of a table's metadata stored under the reserved key
ReservedKey == PyBytes("geometry_fields")
ReservedEntries(t) ==
    {i \in 1..Len(t.metadata.kv) : t.metadata.kv[i][1] = ReservedKey}
ReservedValue(t) == json_loads(decode_utf8(GetItem(t.metadata.kv, ReservedKey)).v)
\* the first geometry field of the file at path, as dict items
FileField == ReservedValue(disk[1]).val.v[1].d
FieldNames ==
    {"field_name", "geometry_format", "geometry_types", "crs", "crs_format"}
IsFieldRecord(o) ==
    /\ o.pt = "dict"
    /\ {o.d[i][1] : i \in 1..Len(o.d)} = FieldNames
    /\ Len(o.d) = Cardinality(FieldNames)

ReadDone == pc = "idle" /\ last.op = "read_geoparquet"
WriteDone == pc = "idle" /\ last.op = "to_geoparquet"

\* C1: reading the file to_geoparquet wrote for a table with a resolvable CRS
\* succeeds and returns the same columns in the same order, the same number of
\* rows, the same non-geometry values and, at every row, the original geometry.
RoundTrip ==
    (written /\ Resolvable /\ ReadDone) =>
        /\ last.ok
        /\ Len(result) = 1
        /\ result[1].columns = Caller.columns
        /\ result[1].geometry = Caller.geometry
        /\ \A c \in Range(Caller.columns) :
              /\ Len(result[1].data[c]) = Len(Caller.data[c])
              /\ \A i \in Rows(Caller.data[c]) : result[1].data[c][i] = Caller.data[c][i]

RoundTripWitness ==
    /\ written /\ Resolvable /\ ReadDone /\ last.ok
    /\ Len(CallerGeoms) >= 2
    /\ {"Point", "Polygon"} \subseteq {CallerGeoms[i].geom.geom_type : i \in Rows(CallerGeoms)}
    /\ result[1].data[Caller.geometry] = CallerGeoms

\* C2 as stated: the value under the reserved key decodes to an object whose
\* single member "geometry_fields" is a list of exactly one geometry-field record.
PersistedLayoutAsObject ==
    written =>
        /\ Cardinality(ReservedEntries(disk[1])) = 1
        /\ LET r == ReservedValue(disk[1]) IN
              /\ r.ok
              /\ r.val.pt = "dict"
              /\ Len(r.val.d) = 1
              /\ r.val.d[1][1] = "geometry_fields"
              /\ r.val.d[1][2].pt = "list"
              /\ Len(r.val.d[1][2].v) = 1
              /\ IsFieldRecord(r.val.d[1][2].v[1])

\* C2 amended: the metadata written by to_geoparquet has exactly one entry
\* under the key b'geometry_fields', and its value is JSON text that decodes to
\* a list of exactly one record with the fields field_name (the geometry
\* column's name), geometry_format = "wkb", geometry_types, crs and crs_format.
PersistedLayout ==
    written =>
        /\ Cardinality(ReservedEntries(disk[1])) = 1
        /\ LET r == ReservedValue(disk[1]) IN
              /\ r.ok
              /\ r.val.pt = "list"
              /\ Len(r.val.v) = 1
              /\ IsFieldRecord(r.val.v[1])
              /\ GetItem(r.val.v[1].d, "field_name") = PyStr(Caller.geometry)
              /\ GetItem(r.val.v[1].d, "geometry_format") = PyStr("wkb")

PersistedLayoutWitness ==
    /\ written /\ WriteDone /\ last.ok
    /\ Len(CallerGeoms) >= 1
    /\ Caller.geometry = "geometry"
    /\ GetItem(FileField, "field_name") = PyStr("geometry")

\* C3: after _update_metadata(table, envelope) on a table that has a metadata
\* map, every key that is not an envelope key is still there with its value, and
\* every envelope key is there exactly once, mapped to the JSON+UTF-8 encoding
\* of its new value.
MetadataIsolation ==
    (Len(um) = 2 /\ um[1].table.metadata.present) =>
        LET before == um[1].table.metadata.kv
            new == um[1].new_metadata
            after == um[2].table.metadata.kv
            envKeys == {PyBytes(new[e][1]) : e \in 1..Len(new)}
        IN /\ um[2].ok
           /\ \A i \in 1..Len(before) :
                 before[i][1] \notin envKeys =>
                    Cardinality({j \in 1..Len(after) : after[j] = before[i]}) = 1
           /\ \A e \in 1..Len(new) :
                 /\ Cardinality({j \in 1..Len(after) :
                                    after[j][1] = PyBytes(new[e][1])}) = 1
                 /\ GetItem(after, PyBytes(new[e][1])) = JsonBytes(new[e][2])

\* C4: reading a plain file (no reserved key; metadata empty or absent) does
\* not raise, and the metadata extraction yields an envelope with no geometry
\* fields.
EmptyMetadataDecode ==
    (ReadDone /\ disk # <<>> /\ disk[1] \in PlainFiles) =>
        /\ last.ok
        /\ _deserialise_metadata(disk[1]).ok
        /\ ~HasKey(_deserialise_metadata(disk[1]).val, "geometry_fields")

OrderPreservation ==
    /\ (pc # "idle" /\ MapReturns) =>
          LET input == heap[loc.df].data[loc.field_name] IN
          /\ Len(pool.value) = Len(input)
          /\ \A i \in Rows(input) : pool.value[i] = Codec(pool.func, input[i]).val
    /\ written =>
          /\ Len(disk[1].data[Caller.geometry]) = Len(CallerGeoms)
          /\ \A i \in Rows(CallerGeoms) :
                disk[1].data[Caller.geometry][i] = wkb_dumps(CallerGeoms[i]).val
    /\ (ReadDone /\ last.ok) =>
          /\ Len(result[1].data[result[1].geometry]) = Len(disk[1].data[result[1].geometry])
          /\ \A i \in Rows(disk[1].data[result[1].geometry]) :
                result[1].data[result[1].geometry][i]
                    = wkb_loads(disk[1].data[result[1].geometry][i]).val

\* a later row is already in the result list while row 1 is still being worked on
OrderPreservationWitness ==
    /\ pc # "idle"
    /\ Len(pool.value) >= 2
    /\ \E w \in Workers : pool.busy[w] = 1
    /\ pool.value[2] # NoneCell
    /\ pool.value[1] = NoneCell
    /\ Codec(pool.func, pool.chunks[1][1]).val # pool.value[2]

\* C7: once a row has failed to encode, to_geoparquet can only end by raising
\* and the file at path is not written; a step that writes the file is taken
\* only after every row was encoded, and the file it writes carries the envelope.
NoPartialWrite ==
    [][/\ (pc = "serialise" /\ ~pool.success) =>
             /\ disk' = disk
             /\ written' = written
             /\ (pc' = "idle" => last' = Outcome("to_geoparquet", FALSE, "CodecError"))
       /\ (pc = "serialise" /\ pc' = "idle" /\ last'.ok) =>
             /\ pool.success /\ pool.left = 0
             /\ calls = Len(CallerGeoms)
             /\ Encodable(CallerGeoms)
             /\ written'
             /\ ReservedEntries(disk'[1]) # {}]_vars

NoPartialWriteWitness ==
    /\ WriteDone /\ ~last.ok
    /\ disk = <<>> /\ ~written
    /\ calls >= 2
    /\ \E i \in Rows(CallerGeoms) : wkb_dumps(CallerGeoms[i]).ok

\* C8: when the envelope of the file names a field that is not a column of the
\* table, read_geoparquet never reaches the map: it ends with an error, no
\* worker has decoded a row and no table is returned.
EnvelopeNamesMissingColumn ==
    /\ disk # <<>>
    /\ LET m == _deserialise_metadata(disk[1]) IN
          /\ m.ok
          /\ HasKey(m.val, "geometry_fields")
          /\ LET gf == GetItem(m.val, "geometry_fields") IN
                /\ gf.pt = "list" /\ gf.v # <<>> /\ gf.v[1].pt = "dict"
                /\ HasKey(gf.v[1].d, "crs") /\ HasKey(gf.v[1].d, "field_name")
                /\ GetItem(gf.v[1].d, "field_name").pt = "str"
                /\ GetItem(gf.v[1].d, "field_name").s \notin Range(disk[1].columns)

SchemaMismatch ==
    EnvelopeNamesMissingColumn =>
        /\ pc # "deserialise"
        /\ ReadDone => (~last.ok /\ last.err = "KeyError: column"
                        /\ calls = 0 /\ result = <<>>)

SchemaMismatchWitness ==
    /\ EnvelopeNamesMissingColumn
    /\ ReadDone /\ ~last.ok /\ last.err = "KeyError: column"
    /\ calls = 0 /\ result = <<>>

\* C9: no step changes the caller's table, nor the frame handed to
\* _serialise_geometry / _deserialise_geometry; only the copy is assigned to.
NoInputMutation ==
    [][/\ heap'[CALLER] = heap[CALLER]
       /\ (pc # "idle" => heap'[loc.self] = heap[loc.self])]_vars

NoInputMutationWitness ==
    /\ WriteDone /\ last.ok
    /\ Len(CallerGeoms) >= 1
    /\ \A i \in Rows(CallerGeoms) : CallerGeoms[i].ctype = "geometry"
    /\ \E r \in DOMAIN heap :
          /\ r # CALLER
          /\ \A i \in Rows(CallerGeoms) : heap[r].data[Caller.geometry][i].ctype = "bytes"

\* C10: the geometry_types written to the file has no duplicates and its
\* elements are exactly the kinds occurring in the geometry column, whatever
\* the order of the rows: {"Point", "Polygon"} for a column of points and polygons.
DistinctKinds ==
    written =>
        LET gt == GetItem(FileField, "geometry_types").v
            kinds == {geom_type(CallerGeoms[i]) : i \in Rows(CallerGeoms)}
        IN /\ Range(gt) = kinds
           /\ Cardinality(Range(gt)) = Len(gt)
           /\ (\A i \in Rows(CallerGeoms) :
                  CallerGeoms[i].geom.geom_type \in {"Point", "Polygon"})
              /\ (\E i, j \in Rows(CallerGeoms) :
                    /\ CallerGeoms[i].geom.geom_type = "Point"
                    /\ CallerGeoms[j].geom.geom_type = "Polygon")
              => Range(gt) = {PyStr("Point"), PyStr("Polygon")}

\* a polygon first, then points, one kind more than once
DistinctKindsWitness ==
    /\ written
    /\ Len(CallerGeoms) >= 3
    /\ CallerGeoms[1].geom.geom_type = "Polygon"
    /\ CallerGeoms[2].geom.geom_type = "Point"
    /\ CallerGeoms[3].geom.geom_type = "Point"
    /\ Len(GetItem(FileField, "geometry_types").v) = 2

====
